---- MODULE Spec2Model ----
(***************************************************************************)
(* Model of the Z-Machine static decoders of skeptomai/gruesome:           *)
(*   - debug_execution_trace.py : ZMachineAnalyzer (instruction decoder    *)
(*     and execution tracer);                                              *)
(*   - scripts/analyze_z3_properties.py : Z3PropertyAnalyzer (object and   *)
(*     property walk, size violations);                                    *)
(*   - utilities/utilities/zmachine_decoder.py : decode_zmachine_text,     *)
(*     decode_property_table_header, decode_property_entry.                *)
(* Buffers are sequences of bytes (0..255); Python offset a is index a+1.  *)
(***************************************************************************)
EXTENDS Integers, Sequences, FiniteSets, TLC

VARIABLES
    data,        \* self.data: the story-file bytes
    high_memory, \* self.high_memory (header word at offset 4)
    start_pc,    \* self.start_pc    (header word at offset 6)
    static_memory, \* self.static_memory (header word at offset 14)
    dpc,         \* argument pc of the pending decode_instruction_at call
    called,      \* TRUE once decode_instruction_at(dpc) has returned
    result,      \* what decode_instruction_at(dpc) returned
    max_instructions, \* argument of trace_from_start
    tstate,      \* position of trace_from_start: "idle", "loop", "done"
    pc,          \* local pc of trace_from_start
    i,           \* loop index of trace_from_start
    steps,       \* what the loop printed, one record per iteration that decoded
    oob,         \* TRUE once "PC out of bounds" was printed
    object_table_addr, \* Z3PropertyAnalyzer.object_table_addr
    astate,      \* position of analyze_properties: "idle", "loop", "done"
    obj_num,     \* local obj_num of analyze_properties
    entry_addr,  \* local addr of analyze_properties (an object entry)
    objects,     \* one record per object analyze_properties analyzed
    violations,  \* local violations of analyze_properties
    stop,        \* why the loop of analyze_properties ended
    prop_table_addr, \* argument of the pending property-table call
    fcall,       \* which function has been called on the buffer, or "none"
    header,      \* what decode_property_table_header returned
    entry,       \* what decode_property_entry returned
    walk,        \* what analyze_object_properties returned
    decoded,     \* what decode_zmachine_text computed
    table_result, \* what analyze_property_table returned
    second_seq,  \* results of a second sequence of decode_instruction_at calls
    output,      \* the parts of the report printed so far, besides the
                 \* trace steps and the analyzed objects
    exit_status, \* the exit status of the run, None while it runs
    error        \* the exception the run died of, None if there is none

\* the variables of Z3PropertyAnalyzer.analyze_properties
analyzerVars ==
    <<object_table_addr, astate, obj_num, entry_addr, objects, violations,
      stop>>

\* the variables of the single function calls
funcVars ==
    <<prop_table_addr, fcall, header, entry, walk, decoded,
      table_result>>

\* the variables of a whole run (main)
mainVars == <<output, exit_status, error>>

\* the variables of ZMachineAnalyzer
tracerVars ==
    <<high_memory, start_pc, static_memory, dpc, called, result,
      max_instructions, tstate, pc, i, steps, oob, second_seq>>

vars == <<data, high_memory, start_pc, static_memory, dpc, called, result,
          max_instructions, tstate, pc, i, steps, oob, second_seq,
          analyzerVars,
          funcVars, mainVars>>

(***************************************************************************)
(* Bounds of the model.                                                    *)
(***************************************************************************)
MaxLen == 12      \* longest buffer of the decoder specification
MaxPc == 1        \* largest decode address of the decoder specification
MaxCode == 3      \* most code bytes after the header in the tracer specification
MaxSteps == 3     \* largest max_instructions
MaxRegion == 1    \* high_memory and static_memory range over 16 .. 16 + MaxRegion
MaxStart == 1     \* start_pc ranges over 16 .. 16 + MaxStart
MaxPad == 1       \* the object table starts at 12 .. 12 + MaxPad
MaxEntries == 2   \* most object entries of a small analyzer buffer
MaxArea == 3      \* most bytes after the object entries of such a buffer
MaxTable == 1     \* largest property table address of the property specification
MaxName == 1      \* largest name length (words) of the property specification
MaxPropLen == 8   \* longest buffer of the property specification
MaxObject == 2    \* largest obj_num passed to analyze_object_properties
MaxWords == 2     \* most words of a text of the text specification
MaxFile == 17     \* longest bare file of the run specification
MaxSecond == 2
MaxLongName == 100
BigLen == 1500    \* length of the uniform analyzer buffers
MaxFill == 2      \* the uniform buffers are filled with 1 .. MaxFill

(***************************************************************************)
(* Python primitives.                                                      *)
(***************************************************************************)
\* An out-of-range subscript self.data[addr] raises IndexError.
IndexError == -1
\* struct.unpack('>H', s) raises struct.error unless len(s) = 2.
StructError == -2

Min(a, b) == IF a < b THEN a ELSE b

\* self.data[addr] for addr >= 0
Subscript(d, addr) ==
    IF addr < Len(d) THEN d[addr + 1] ELSE IndexError

\* self.data[a:b] for 0 <= a <= b (a slice never raises, it is cut short)
Slice(d, a, b) == SubSeq(d, a + 1, Min(b, Len(d)))

\* struct.unpack('>H', s)[0]
unpack_H(s) ==
    IF Len(s) = 2 THEN s[1] * 256 + s[2] ELSE StructError

\* f"{n:02x}"
HexDigit == <<"0", "1", "2", "3", "4", "5", "6", "7",
              "8", "9", "a", "b", "c", "d", "e", "f">>
Hex02(n) == HexDigit[(n \div 16) + 1] \o HexDigit[(n % 16) + 1]

(***************************************************************************)
(* ZMachineAnalyzer.get_byte / get_word                                    *)
(***************************************************************************)
get_byte_unguarded(d, addr) == Subscript(d, addr)

get_byte(d, addr) ==
    IF addr >= Len(d) THEN 0 ELSE Subscript(d, addr)

get_word_unguarded(d, addr) ==
    IF addr >= Len(d) THEN 0 ELSE unpack_H(Slice(d, addr, addr + 2))

get_word(d, addr) ==
    IF addr + 1 >= Len(d) THEN 0 ELSE unpack_H(Slice(d, addr, addr + 2))

(***************************************************************************)
(* The decoded instruction: the tuple (opcode_name, next_pc, operands,     *)
(* store_var).  store_var is <<>> for None and <<v>> for the byte v.       *)
(* raised is TRUE when the call ended in an exception instead.             *)
(***************************************************************************)
None == <<>>
Some(v) == <<v>>

Instr(name, next_pc, operands, store_var) ==
    [name |-> name, next_pc |-> next_pc, operands |-> operands,
     store_var |-> store_var, raised |-> FALSE]

Exception ==
    [name |-> "", next_pc |-> 0, operands |-> <<>>,
     store_var |-> None, raised |-> TRUE]

\* A read that raised leaves its marker in the value it would have bound.
IsError(v) == v < 0
AnyError(r) ==
    \/ \E k \in 1..Len(r.operands) : IsError(r.operands[k])
    \/ \E k \in 1..Len(r.store_var) : IsError(r.store_var[k])

\* An exception inside a decode_* call propagates to the caller.
Propagate(r) == IF AnyError(r) THEN Exception ELSE r

(***************************************************************************)
(* decode_long_form                                                        *)
(***************************************************************************)
LongStoreOpcodes_NoArithmetic == {1, 2, 3, 4, 5, 6, 7, 8, 9, 10}

LongStoreOpcodes ==
    {1, 2, 3, 4, 5, 6, 7, 8, 9, 10, 19, 20, 21, 22, 23, 24, 25, 26}

\* opcode_names of decode_long_form: keys 0x01 .. 0x1C
LongNames ==
    <<"je", "jl", "jg", "dec_chk", "inc_chk",
      "jin", "test", "or", "and", "test_attr",
      "set_attr", "clear_attr", "store", "insert_obj",
      "loadw", "loadb", "get_prop", "get_prop_addr",
      "get_next_prop", "add", "sub", "mul", "div",
      "mod", "call_2s", "call_2n", "set_colour",
      "throw">>

\* a lookup opcode_names[opcode] without the default: no name comes back
LongName_NoDefault(opcode) ==
    IF opcode \in DOMAIN LongNames THEN LongNames[opcode] ELSE ""

LongName(opcode) ==
    IF opcode \in DOMAIN LongNames
        THEN LongNames[opcode]
        ELSE "unknown_2op_" \o Hex02(opcode)

decode_long_form(d, p) ==
    LET opcode_byte == get_byte(d, p)
        opcode == opcode_byte % 32
        op1_type == (opcode_byte \div 64) % 2
        op2_type == (opcode_byte \div 32) % 2
        pc0 == p + 1
        \* both branches of each operand-type test read one byte
        operand1 == IF op1_type = 0 THEN get_byte(d, pc0) ELSE get_byte(d, pc0)
        pc1 == pc0 + 1
        operand2 == IF op2_type = 0 THEN get_byte(d, pc1) ELSE get_byte(d, pc1)
        pc2 == pc1 + 1
        stores == opcode \in LongStoreOpcodes
        store_var == IF stores THEN Some(get_byte(d, pc2)) ELSE None
        next_pc == IF stores THEN pc2 + 1 ELSE pc2
    IN  Instr(LongName(opcode), next_pc, <<operand1, operand2>>, store_var)

(***************************************************************************)
(* decode_short_form                                                       *)
(***************************************************************************)
ShortStoreOpcodes == {1, 2, 3, 4, 5, 6, 8, 14, 15}

\* opcode_names of the 1OP branch: keys 0x00 .. 0x0F
OneOpNames ==
    <<"jz", "get_sibling", "get_child", "get_parent",
      "get_prop_len", "inc", "dec", "print_addr",
      "call_1s", "remove_obj", "print_obj", "ret",
      "jump", "print_paddr", "load", "not">>

\* opcode_names of the 0OP branch: keys 0x00 .. 0x0F
ZeroOpNames ==
    <<"rtrue", "rfalse", "print", "print_ret",
      "nop", "save", "restore", "restart",
      "ret_popped", "pop", "quit", "new_line",
      "show_status", "verify", "extended", "piracy">>

ShortName(op_type, opcode) ==
    LET names == IF op_type # 3 THEN OneOpNames ELSE ZeroOpNames
    IN  IF opcode + 1 \in DOMAIN names
            THEN names[opcode + 1]
            ELSE "unknown_" \o HexDigit[op_type + 1] \o "op_" \o Hex02(opcode)

\* bytes the single operand of a short-form instruction advances next_pc by
ShortOperandWidth_LargeAsByte(op_type) == IF op_type = 3 THEN 0 ELSE 1

ShortOperandWidth(op_type) ==
    IF op_type = 0 THEN 2
    ELSE IF op_type = 1 THEN 1
    ELSE IF op_type = 2 THEN 1
    ELSE 0

decode_short_form(d, p) ==
    LET opcode_byte == get_byte(d, p)
        opcode == opcode_byte % 16
        op_type == (opcode_byte \div 16) % 4
        pc0 == p + 1
        operands == IF op_type = 0 THEN <<get_word(d, pc0)>>
                    ELSE IF op_type = 1 THEN <<get_byte(d, pc0)>>
                    ELSE IF op_type = 2 THEN <<get_byte(d, pc0)>>
                    ELSE <<>>
        pc1 == pc0 + ShortOperandWidth(op_type)
        stores == op_type # 3 /\ opcode \in ShortStoreOpcodes
        store_var == IF stores THEN Some(get_byte(d, pc1)) ELSE None
        next_pc == IF stores THEN pc1 + 1 ELSE pc1
    IN  Instr(ShortName(op_type, opcode), next_pc, operands, store_var)

(***************************************************************************)
(* decode_variable_form                                                    *)
(***************************************************************************)
VarStoreOpcodes == {0, 1, 2, 3, 4, 5, 6, 7, 8, 9, 10, 11}

\* opcode_names of decode_variable_form: keys 0x00 .. 0x1F
VarNames ==
    <<"call_vs", "storew", "storeb", "put_prop",
      "sread", "print_char", "print_num", "random",
      "push", "pull", "split_window", "set_window",
      "call_vs2", "erase_window", "erase_line", "set_cursor",
      "get_cursor", "set_text_style", "buffer_mode", "output_stream",
      "input_stream", "sound_effect", "read_char", "scan_table",
      "not", "call_vn", "call_vn2", "tokenise",
      "encode_text", "copy_table", "print_table", "check_arg_count">>

VarName(opcode) ==
    IF opcode + 1 \in DOMAIN VarNames
        THEN VarNames[opcode + 1]
        ELSE "unknown_var_" \o Hex02(opcode)

\* the four fields read least-significant pair first
VarOpType_LowFirst(types_byte, k) == (types_byte \div (2 ^ (2 * k))) % 4

\* (types_byte >> (6 - 2*i)) & 0x03
VarOpType(types_byte, k) == (types_byte \div (2 ^ (6 - 2 * k))) % 4

\* bytes an operand of the given type advances next_pc by
VarOperandWidth_Wide(op_type) == IF op_type = 0 THEN 3 ELSE 1

VarOperandWidth(op_type) == IF op_type = 0 THEN 2 ELSE 1

\* the loop "for i in range(4)" from iteration k on
RECURSIVE VarOperands(_, _, _, _, _)
VarOperands(d, types_byte, k, operands, next_pc) ==
    IF k = 4 THEN [operands |-> operands, next_pc |-> next_pc]
    ELSE LET op_type == VarOpType(types_byte, k)
         IN  IF op_type = 3
                 THEN [operands |-> operands, next_pc |-> next_pc]
             ELSE IF op_type = 0
                 THEN VarOperands(d, types_byte, k + 1,
                                  Append(operands, get_word(d, next_pc)),
                                  next_pc + VarOperandWidth(op_type))
             ELSE VarOperands(d, types_byte, k + 1,
                              Append(operands, get_byte(d, next_pc)),
                              next_pc + VarOperandWidth(op_type))

decode_variable_form(d, p) ==
    LET opcode_byte == get_byte(d, p)
        opcode == opcode_byte % 32
        types_byte == get_byte(d, p + 1)
        loop == VarOperands(d, types_byte, 0, <<>>, p + 2)
        stores == opcode \in VarStoreOpcodes
        store_var == IF stores THEN Some(get_byte(d, loop.next_pc)) ELSE None
        next_pc == IF stores THEN loop.next_pc + 1 ELSE loop.next_pc
    IN  IF IsError(types_byte) THEN Exception
        ELSE Instr(VarName(opcode), next_pc, loop.operands, store_var)

(***************************************************************************)
(* decode_instruction_at                                                   *)
(***************************************************************************)
EOF == Instr("EOF", 0, <<>>, None)

\* a decoder that kept its position in a cursor shared by all callers
decode_instruction_at_Shared(d, p) ==
    IF pc >= Len(d) THEN [EOF EXCEPT !.next_pc = pc]
    ELSE LET opcode_byte == get_byte(d, pc)
         IN  IF IsError(opcode_byte) THEN Exception
             ELSE IF (opcode_byte \div 128) % 2 = 0
                 THEN Propagate(decode_long_form(d, pc))
             ELSE IF (opcode_byte \div 64) % 2 = 0
                 THEN Propagate(decode_short_form(d, pc))
             ELSE Propagate(decode_variable_form(d, pc))

decode_instruction_at(d, p) ==
    IF p >= Len(d) THEN [EOF EXCEPT !.next_pc = p]
    ELSE LET opcode_byte == get_byte(d, p)
         IN  IF IsError(opcode_byte) THEN Exception
             ELSE IF (opcode_byte \div 128) % 2 = 0
                 THEN Propagate(decode_long_form(d, p))
             ELSE IF (opcode_byte \div 64) % 2 = 0
                 THEN Propagate(decode_short_form(d, p))
             ELSE Propagate(decode_variable_form(d, p))

(***************************************************************************)
(* ZMachineAnalyzer.__init__: the header fields the tracer reads.          *)
(***************************************************************************)
HeaderSize == 16

\* struct.unpack('>H', self.data[off:off+2])[0]
HeaderWord_Clamped(d, off) == get_word(d, off)

HeaderWord(d, off) == unpack_H(Slice(d, off, off + 2))

(***************************************************************************)
(* trace_from_start                                                        *)
(***************************************************************************)
\* "for i in range(max_instructions)": another iteration starts
LoopContinues_OffByOne(k, max) == k <= max

LoopContinues(k, max) == k < max

\* the "dangerous areas" check printed under each step
RegionNote(p, high, static) ==
    IF p > high THEN "WARNING"
    ELSE IF p > static THEN "INFO"
    ELSE "none"

\* raw_bytes = [get_byte(pc + j) for j in range(min(8, next_pc - pc))]
RawBytes_Uncapped(d, p, next_pc) ==
    [j \in 1..(next_pc - p) |-> Hex02(get_byte(d, p + j - 1))]

RawBytes(d, p, next_pc) ==
    [j \in 1..Min(8, next_pc - p) |-> Hex02(get_byte(d, p + j - 1))]

\* opcode_name.startswith(prefix)
startswith(s, prefix) ==
    Len(s) >= Len(prefix) /\ SubSeq(s, 1, Len(prefix)) = prefix

\* the "special instruction handling" chain: what is printed after the step
Special(name) ==
    IF name = "rtrue" THEN "return TRUE"
    ELSE IF name = "rfalse" THEN "return FALSE"
    ELSE IF name = "quit" THEN "quit"
    ELSE IF startswith(name, "jump") THEN "jump"
    ELSE "none"

\* the branches of that chain that end in "break"
Breaks_WithRet(name) == name \in {"rtrue", "rfalse", "quit", "ret"}

Breaks(name) == name \in {"rtrue", "rfalse", "quit"}

\* steps numbered from 1
TraceStep_OneBased(k, p, r) ==
    [index |-> k + 1, pc |-> p, name |-> r.name, operands |-> r.operands,
     store_var |-> r.store_var, next_pc |-> r.next_pc,
     region |-> RegionNote(p, high_memory, static_memory),
     raw_bytes |-> RawBytes(data, p, r.next_pc),
     special |-> Special(r.name)]

TraceStep(k, p, r) ==
    [index |-> k, pc |-> p, name |-> r.name, operands |-> r.operands,
     store_var |-> r.store_var, next_pc |-> r.next_pc,
     region |-> RegionNote(p, high_memory, static_memory),
     raw_bytes |-> RawBytes(data, p, r.next_pc),
     special |-> Special(r.name)]

(***************************************************************************)
(* Z3PropertyAnalyzer (scripts/analyze_z3_properties.py)                   *)
(***************************************************************************)
DefaultsSize == 62     \* the property defaults table: 31 words
EntrySize == 9         \* a V3 object entry
ObjectLimit == 100     \* "don't analyze more than 100 objects"
PropertyLimit == 50    \* the safety limit of the property loop

\* prop_num = size_byte & 0x1F
PropNum(size_byte) == size_byte % 32

\* a size field of four bits
PropSize_FourBits(size_byte) == ((size_byte \div 16) % 16) + 1

PropSize_ZeroBased(size_byte) == (size_byte \div 32) % 8

\* prop_size = ((size_byte >> 5) & 0x07) + 1
PropSize(size_byte) == ((size_byte \div 32) % 8) + 1

SizeViolation_FromEight(prop_size) == prop_size >= 8

\* the V3 compliance check: prop_size > 8
SizeViolation(prop_size) == prop_size > 8

\* the violation dictionary
Violation(obj, size_byte, a) ==
    [object |-> obj, property |-> PropNum(size_byte),
     size |-> PropSize(size_byte), size_byte |-> size_byte, address |-> a]

\* what the loop prints for one property; address is the loop's local addr
Property(size_byte, a) ==
    [number |-> PropNum(size_byte), size |-> PropSize(size_byte),
     size_byte |-> size_byte, address |-> a,
     zero_warning |-> PropSize(size_byte) = 0]

\* while addr < len(self.data) and prop_count < 50
PropertyLoopContinues(a, len, prop_count) ==
    a < len /\ prop_count < PropertyLimit

\* the property loop of analyze_object_properties from local addr a on;
\* prop_count is Len(props)
RECURSIVE property_loop(_, _, _, _, _)
property_loop(d, obj, a, props, viols) ==
    IF ~PropertyLoopContinues(a, Len(d), Len(props))
        THEN [properties |-> props, violations |-> viols,
              terminator |-> FALSE, end |-> a]
    ELSE LET size_byte == d[a + 1]
         IN  IF size_byte = 0
                 THEN [properties |-> props, violations |-> viols,
                       terminator |-> TRUE, end |-> a]
             ELSE property_loop(d, obj, a + 1 + PropSize(size_byte),
                      Append(props, Property(size_byte, a)),
                      IF SizeViolation(PropSize(size_byte))
                          THEN Append(viols, Violation(obj, size_byte, a))
                      ELSE viols)

PropStart_Words(table_addr, name_len_words) ==
    table_addr + 1 + name_len_words

\* name_bytes = name_len_words * 2; prop_start = prop_table_addr + 1 +
\* name_bytes
PropStart(table_addr, name_len_words) ==
    table_addr + 1 + name_len_words * 2

\* analyze_object_properties(obj_num, prop_table_addr): the violations it
\* returns and what it prints (name length, start of the properties, one
\* line per property, the terminator line, the out-of-bounds error)
analyze_object_properties(d, obj, table_addr) ==
    IF table_addr >= Len(d)
        THEN [out_of_bounds |-> TRUE, name_len_words |-> None,
              prop_start |-> None, properties |-> <<>>, violations |-> <<>>,
              terminator |-> FALSE, end |-> None]
    ELSE LET name_len_words == d[table_addr + 1]
             prop_start == PropStart(table_addr, name_len_words)
             r == property_loop(d, obj, prop_start, <<>>, <<>>)
         IN  [out_of_bounds |-> FALSE, name_len_words |-> name_len_words,
              prop_start |-> prop_start, properties |-> r.properties,
              violations |-> r.violations, terminator |-> r.terminator,
              end |-> r.end]

ObjectLimitReached_Never(n) == FALSE

\* if obj_num > 100: break
ObjectLimitReached(n) == n > ObjectLimit

\* while addr < len(self.data) - 9, and the check addr + 9 > len(self.data)
\* at the top of the body
EntryLoopContinues(a, len) == a < len - EntrySize /\ ~(a + EntrySize > len)

(***************************************************************************)
(* utilities/utilities/zmachine_decoder.py                                 *)
(***************************************************************************)
alphabet ==
    <<"a", "b", "c", "d", "e", "f", "g", "h", "i", "j", "k", "l", "m",
      "n", "o", "p", "q", "r", "s", "t", "u", "v", "w", "x", "y", "z">>

ZCodes_LowFirst(word) ==
    <<word % 32, (word \div 32) % 32, (word \div 1024) % 32>>

\* c1 = (word >> 10) & 0x1f, c2 = (word >> 5) & 0x1f, c3 = word & 0x1f
ZCodes(word) ==
    <<(word \div 1024) % 32, (word \div 32) % 32, word % 32>>

\* what one code adds to the text: a space, a letter, or nothing (the
\* shift codes 4 and 5 continue, the codes 1-3 match no branch)
ZChar(c) ==
    IF c = 0 THEN " "
    ELSE IF c >= 6 /\ c <= 31 THEN alphabet[c - 6 + 1]
    ELSE ""

EndOfText_Never(word) == FALSE

\* word & 0x8000
EndOfText(word) == (word \div 32768) % 2 = 1

\* the loop of decode_zmachine_text from i = k on
RECURSIVE text_loop(_, _, _)
text_loop(d, k, text) ==
    IF k >= Len(d) \/ k + 1 >= Len(d) THEN text
    ELSE LET word == d[k + 1] * 256 + d[k + 2]
             c == ZCodes(word)
             t == text \o ZChar(c[1]) \o ZChar(c[2]) \o ZChar(c[3])
         IN  IF EndOfText(word) THEN t ELSE text_loop(d, k + 2, t)

\* str.lstrip() and str.rstrip() of a text of spaces and letters
RECURSIVE lstrip(_)
lstrip(t) ==
    IF Len(t) > 0 /\ SubSeq(t, 1, 1) = " "
        THEN lstrip(SubSeq(t, 2, Len(t)))
    ELSE t

RECURSIVE rstrip(_)
rstrip(t) ==
    IF Len(t) > 0 /\ SubSeq(t, Len(t), Len(t)) = " "
        THEN rstrip(SubSeq(t, 1, Len(t) - 1))
    ELSE t

\* str.strip()
strip(t) == rstrip(lstrip(t))

\* decode_zmachine_text(data_bytes)
decode_zmachine_text(d) == strip(text_loop(d, 0, ""))

\* decode_property_table_header(data_bytes, offset)
decode_property_table_header(d, offset) ==
    IF offset >= Len(d)
        THEN [name_length |-> None, decoded_name |-> None,
              properties_start |-> offset]
    ELSE LET name_length == d[offset + 1]
         IN  IF name_length = 0
                 THEN [name_length |-> 0, decoded_name |-> "",
                       properties_start |-> offset + 1]
             ELSE [name_length |-> name_length,
                   decoded_name |-> decode_zmachine_text(
                       Slice(d, offset + 1, offset + 1 + name_length * 2)),
                   properties_start |-> offset + 1 + name_length * 2]

\* decode_property_entry(data_bytes, offset)
decode_property_entry(d, offset) ==
    IF offset >= Len(d)
        THEN [prop_number |-> None, prop_size |-> None,
              property_data |-> None, next_offset |-> offset]
    ELSE LET size_byte == d[offset + 1]
             prop_number == size_byte % 32
             extended == (size_byte \div 128) % 2 = 1
             prop_size ==
                 IF extended
                     THEN (IF size_byte % 64 = 0 THEN 64 ELSE size_byte % 64)
                 ELSE ((size_byte \div 32) % 8) + 1
             data_start == IF extended THEN offset + 2 ELSE offset + 1
         IN  [prop_number |-> prop_number, prop_size |-> prop_size,
              property_data |-> Slice(d, data_start, data_start + prop_size),
              next_offset |-> data_start + prop_size]

\* prop_data.hex()
RECURSIVE hex(_)
hex(bytes) ==
    IF bytes = <<>> THEN "" ELSE Hex02(bytes[1]) \o hex(Tail(bytes))

\* prop_value: the data of one byte, of two bytes (big-endian), else None
PropValue(prop_data) ==
    IF Len(prop_data) = 1 THEN Some(prop_data[1])
    ELSE IF Len(prop_data) = 2
        THEN Some(prop_data[1] * 256 + prop_data[2])
    ELSE None

\* f.read(200)
ReadSize == 200

TableStops_Never(prop_num) == FALSE

\* if prop_num is None or prop_num == 0: break (prop_num is not None when
\* offset < len(data))
TableStops(prop_num) == prop_num = 0

\* the while loop of analyze_property_table from offset on
RECURSIVE table_loop(_, _, _, _)
table_loop(d, table_offset, offset, props) ==
    IF ~(offset < Len(d)) THEN [properties |-> props, end |-> offset]
    ELSE LET e == decode_property_entry(d, offset)
         IN  IF TableStops(e.prop_number)
                 THEN [properties |-> props, end |-> offset]
             ELSE table_loop(d, table_offset, e.next_offset,
                      Append(props,
                          [number |-> e.prop_number, size |-> e.prop_size,
                           data_hex |-> hex(e.property_data),
                           data_value |-> PropValue(e.property_data),
                           offset |-> table_offset + offset]))

\* analyze_property_table(binary_file, table_offset) on a file of bytes d:
\* the results dictionary, and in end the offset the loop stopped at
analyze_property_table(d, table_offset) ==
    LET window == Slice(d, table_offset, table_offset + ReadSize)
        h == decode_property_table_header(window, 0)
        r == table_loop(window, table_offset, h.properties_start, <<>>)
    IN  [object_name |-> h.decoded_name, name_length |-> h.name_length,
         properties |-> r.properties, end |-> r.end]

(***************************************************************************)
(* Inputs of the decoder specification: every opcode byte, every type byte *)
(* after a variable-form opcode, buffers cut at every length up to MaxLen. *)
(***************************************************************************)
\* filler byte at offset k: distinct nonzero values, so that an operand
\* tells which offsets it was read from
Fill(k) == (17 * (k + 1)) % 256

SecondBytes(op) == IF op >= 192 THEN 0..255 ELSE {0, 165}

DecodeBuffer(p, op, second, len) ==
    [k \in 1..len |->
        IF k - 1 = p THEN op
        ELSE IF k - 1 = p + 1 THEN second
        ELSE Fill(k - 1)]

TraceIdle ==
    /\ max_instructions = 0
    /\ tstate = "idle"
    /\ pc = 0
    /\ i = 0
    /\ steps = <<>>
    /\ oob = FALSE
    /\ second_seq = <<>>

\* no analyze_properties call has been made
AnalyzerIdle ==
    /\ object_table_addr = 0
    /\ astate = "idle"
    /\ obj_num = 0
    /\ entry_addr = 0
    /\ objects = <<>>
    /\ violations = <<>>
    /\ stop = ""

\* no run has been started and nothing has been printed
MainIdle ==
    /\ output = <<>>
    /\ exit_status = None
    /\ error = None

\* the constructor has returned: it has printed the header fields
Constructed ==
    /\ output = <<"header">>
    /\ exit_status = None
    /\ error = None

\* no single function call has been made
FuncIdle ==
    /\ prop_table_addr = 0
    /\ fcall = "none"
    /\ header = None
    /\ entry = None
    /\ walk = None
    /\ decoded = None
    /\ table_result = None

InitDecode ==
    /\ \E p \in 0..MaxPc, op \in 0..255, len \in 0..MaxLen :
         \E second \in SecondBytes(op) :
            /\ data = DecodeBuffer(p, op, second, len)
            /\ dpc = p
    /\ high_memory = 0
    /\ start_pc = 0
    /\ static_memory = 0
    /\ called = FALSE
    /\ result = EOF
    /\ TraceIdle
    /\ AnalyzerIdle
    /\ FuncIdle
    /\ MainIdle

\* one call decode_instruction_at(dpc)
Decode ==
    /\ ~called
    /\ tstate = "idle"
    /\ called' = TRUE
    /\ result' = decode_instruction_at(data, dpc)
    /\ UNCHANGED <<data, high_memory, start_pc, static_memory, dpc,
                   max_instructions, tstate, pc, i, steps, oob>>
    /\ UNCHANGED <<analyzerVars, funcVars, second_seq, mainVars>>

NextDecode == Decode

DecodeSpec == InitDecode /\ [][NextDecode]_vars

(***************************************************************************)
(* Inputs of the tracer specification: a 16-byte header followed by up to  *)
(* MaxCode code bytes drawn from TraceBytes.                               *)
(***************************************************************************)
\* rtrue, rfalse, quit, ret_popped, print_ret (0OP); ret with a one-byte
\* operand; jump with a two-byte operand; call_vs (variable form) and the
\* byte 0, which after call_vs is a type byte of four large constants and as an
\* opcode is the long-form unknown_2op_00
TraceBytes == {176, 177, 186, 184, 179, 155, 140, 224, 0}

Codes == UNION {[1..n -> TraceBytes] : n \in 0..MaxCode}

\* a version-3 header with the three fields the tracer reads
HeaderBytes(high, start, static) ==
    <<3, 0, 0, 0, high \div 256, high % 256, start \div 256, start % 256,
      0, 0, 0, 0, 0, 0, static \div 256, static % 256>>

InitTrace ==
    /\ \E code \in Codes :
         \E high \in HeaderSize..(HeaderSize + MaxRegion),
            static \in HeaderSize..(HeaderSize + MaxRegion),
            start \in HeaderSize..(HeaderSize + MaxStart) :
            data = HeaderBytes(high, start, static) \o code
    /\ high_memory = HeaderWord(data, 4)
    /\ start_pc = HeaderWord(data, 6)
    /\ static_memory = HeaderWord(data, 14)
    /\ dpc = 0
    /\ called = FALSE
    /\ result = EOF
    /\ TraceIdle
    /\ AnalyzerIdle
    /\ FuncIdle
    /\ Constructed

\* the call trace_from_start(m): pc = self.start_pc, the loop begins
TraceStart ==
    /\ tstate = "idle"
    /\ \E m \in 0..MaxSteps : max_instructions' = m
    /\ tstate' = "loop"
    /\ pc' = start_pc
    /\ i' = 0
    /\ UNCHANGED <<data, high_memory, start_pc, static_memory, dpc, called,
                   result, steps, oob>>
    /\ UNCHANGED <<analyzerVars, funcVars, second_seq, mainVars>>

\* an iteration that finds pc >= len(self.data): "PC out of bounds", break
TraceOutOfBounds ==
    /\ tstate = "loop"
    /\ LoopContinues(i, max_instructions)
    /\ pc >= Len(data)
    /\ oob' = TRUE
    /\ tstate' = "done"
    /\ UNCHANGED <<data, high_memory, start_pc, static_memory, dpc, called,
                   result, max_instructions, pc, i, steps>>
    /\ UNCHANGED <<analyzerVars, funcVars, second_seq, mainVars>>

\* an iteration that decodes and prints one instruction
TraceInstruction ==
    /\ tstate = "loop"
    /\ LoopContinues(i, max_instructions)
    /\ pc < Len(data)
    /\ LET r == decode_instruction_at(data, pc)
       IN  IF r.raised
               THEN /\ tstate' = "raised"
                    /\ UNCHANGED <<pc, i, steps>>
           ELSE /\ steps' = Append(steps, TraceStep(i, pc, r))
                /\ IF Breaks(r.name)
                       THEN /\ tstate' = "done"
                            /\ UNCHANGED <<pc, i>>
                       ELSE /\ pc' = r.next_pc
                            /\ i' = i + 1
                            /\ UNCHANGED tstate
    /\ UNCHANGED <<data, high_memory, start_pc, static_memory, dpc, called,
                   result, max_instructions, oob>>
    /\ UNCHANGED <<analyzerVars, funcVars, second_seq, mainVars>>

\* range(max_instructions) is used up: the loop ends
TraceExhausted ==
    /\ tstate = "loop"
    /\ ~LoopContinues(i, max_instructions)
    /\ tstate' = "done"
    /\ UNCHANGED <<data, high_memory, start_pc, static_memory, dpc, called,
                   result, max_instructions, pc, i, steps, oob>>
    /\ UNCHANGED <<analyzerVars, funcVars, second_seq, mainVars>>

NextTrace ==
    \/ TraceStart
    \/ TraceOutOfBounds
    \/ TraceInstruction
    \/ TraceExhausted

TraceSpec == InitTrace /\ [][NextTrace]_vars

\* the tracer is a sequential program: a step that can be taken is taken
FairTraceSpec == TraceSpec /\ WF_vars(NextTrace)

(***************************************************************************)
(* Two decode sequences on one ZMachineAnalyzer: the loop of               *)
(* trace_from_start and a second caller that decodes from start_pc on,     *)
(* each call at the next_pc of its own previous call, in any interleaving. *)
(***************************************************************************)
\* what a caller keeps of one call decode_instruction_at(p)
DecodeCall(p, r) ==
    [pc |-> p, name |-> r.name, next_pc |-> r.next_pc,
     operands |-> r.operands, store_var |-> r.store_var]

\* one call decode_instruction_at of the second caller
SecondDecode ==
    /\ Len(second_seq) < MaxSecond
    /\ LET p == IF second_seq = <<>> THEN start_pc
                ELSE second_seq[Len(second_seq)].next_pc
           r == decode_instruction_at(data, p)
       IN  /\ ~r.raised
           /\ second_seq' = Append(second_seq, DecodeCall(p, r))
    /\ UNCHANGED <<data, high_memory, start_pc, static_memory, dpc, called,
                   result, max_instructions, tstate, pc, i, steps, oob>>
    /\ UNCHANGED <<analyzerVars, funcVars, mainVars>>

\* the code starts right after the header, in every memory region's base
InitInterleave ==
    /\ \E code \in Codes :
          data = HeaderBytes(HeaderSize, HeaderSize, HeaderSize) \o code
    /\ high_memory = HeaderWord(data, 4)
    /\ start_pc = HeaderWord(data, 6)
    /\ static_memory = HeaderWord(data, 14)
    /\ dpc = 0
    /\ called = FALSE
    /\ result = EOF
    /\ TraceIdle
    /\ AnalyzerIdle
    /\ FuncIdle
    /\ Constructed

NextInterleave ==
    \/ TraceStart
    \/ TraceOutOfBounds
    \/ TraceInstruction
    \/ TraceExhausted
    \/ SecondDecode

InterleaveSpec == InitInterleave /\ [][NextInterleave]_vars

(***************************************************************************)
(* The property analyzer specification: Z3PropertyAnalyzer constructed on  *)
(* a buffer, then analyze_properties, one action per loop iteration.       *)
(* Small buffers: a 12-byte header, the defaults table, up to MaxEntries   *)
(* object entries and up to MaxArea further bytes.  Uniform buffers: BigLen*)
(* bytes of one nonzero value, so no pointer and no size byte is zero.     *)
(***************************************************************************)
\* no ZMachineAnalyzer call has been made
TracerIdle ==
    /\ high_memory = 0
    /\ start_pc = 0
    /\ static_memory = 0
    /\ dpc = 0
    /\ called = FALSE
    /\ result = EOF
    /\ TraceIdle

\* a version-3 header with the field the property analyzer reads
ObjectHeader(table) ==
    <<3, 0, 0, 0, 0, 0, 0, 0, 0, 0, table \div 256, table % 256>>

\* an object entry: attributes, parent, sibling, child, property pointer
EntryBytes(ptr) ==
    <<17, 34, 51, 68, 85, 102, 119, ptr \div 256, ptr % 256>>

RECURSIVE Entries(_)
Entries(ptrs) ==
    IF ptrs = <<>> THEN <<>>
    ELSE EntryBytes(ptrs[1]) \o Entries(Tail(ptrs))

\* zero (end of objects), a name length and a terminator, a one-byte
\* property, a two-byte property, an eight-byte property
AreaBytes == {0, 1, 34, 229}

Areas == UNION {[1..n -> AreaBytes] : n \in 0..MaxArea}

\* a pointer is zero, or points into the (all zero) defaults table, or at
\* the bytes after the object entries
Pointer(kind, table, k) ==
    IF kind = "zero" THEN 0
    ELSE IF kind = "defaults" THEN table
    ELSE table + DefaultsSize + EntrySize * k

SmallBuffer(table, kinds, area) ==
    ObjectHeader(table)
       \o [j \in 1..(table - 12 + DefaultsSize) |-> 0]
       \o Entries([n \in 1..Len(kinds) |->
                     Pointer(kinds[n], table, Len(kinds))])
       \o area

InitAnalyzer ==
    /\ \/ \E table \in 12..(12 + MaxPad), k \in 0..MaxEntries :
            \E kinds \in [1..k -> {"zero", "defaults", "area"}],
               area \in Areas :
               data = SmallBuffer(table, kinds, area)
       \/ \E c \in 1..MaxFill : data = [j \in 1..BigLen |-> c]
    /\ object_table_addr = unpack_H(Slice(data, 10, 12))
    /\ astate = "idle"
    /\ obj_num = 0
    /\ entry_addr = 0
    /\ objects = <<>>
    /\ violations = <<>>
    /\ stop = ""
    /\ TracerIdle
    /\ FuncIdle
    /\ Constructed

\* the call analyze_properties(): the locals are set, the loop begins
AnalyzeStart ==
    /\ astate = "idle"
    /\ astate' = "loop"
    /\ violations' = <<>>
    /\ obj_num' = 1
    /\ entry_addr' = object_table_addr + DefaultsSize
    /\ UNCHANGED <<data, object_table_addr, objects, stop, tracerVars,
                   funcVars>>
    /\ UNCHANGED mainVars

\* the loop condition fails: no further entry is read
AnalyzeBufferEnd ==
    /\ astate = "loop"
    /\ ~EntryLoopContinues(entry_addr, Len(data))
    /\ astate' = "done"
    /\ stop' = "buffer"
    /\ UNCHANGED <<data, object_table_addr, obj_num, entry_addr, objects,
                   violations, tracerVars, funcVars>>
    /\ UNCHANGED mainVars

\* an iteration that reads a zero property-table pointer: "End of objects"
AnalyzeZeroPointer ==
    /\ astate = "loop"
    /\ EntryLoopContinues(entry_addr, Len(data))
    /\ unpack_H(Slice(data, entry_addr + 7, entry_addr + 9)) = 0
    /\ astate' = "done"
    /\ stop' = "zero"
    /\ UNCHANGED <<data, object_table_addr, obj_num, entry_addr, objects,
                   violations, tracerVars, funcVars>>
    /\ UNCHANGED mainVars

\* an iteration that analyzes one object; it ends the loop when the safety
\* limit is reached
AnalyzeObject ==
    /\ astate = "loop"
    /\ EntryLoopContinues(entry_addr, Len(data))
    /\ LET ptr == unpack_H(Slice(data, entry_addr + 7, entry_addr + 9))
       IN  /\ ptr # 0
           /\ IF ptr = StructError
                  THEN /\ astate' = "raised"
                       /\ UNCHANGED <<obj_num, entry_addr, objects,
                                      violations, stop>>
              ELSE LET r == analyze_object_properties(data, obj_num, ptr)
                   IN  /\ objects' = Append(objects,
                              [object |-> obj_num, entry |-> entry_addr,
                               prop_table |-> ptr, analysis |-> r])
                       /\ violations' = violations \o r.violations
                       /\ obj_num' = obj_num + 1
                       /\ entry_addr' = entry_addr + EntrySize
                       /\ IF ObjectLimitReached(obj_num + 1)
                              THEN astate' = "done" /\ stop' = "limit"
                          ELSE UNCHANGED <<astate, stop>>
    /\ UNCHANGED <<data, object_table_addr, tracerVars, funcVars>>
    /\ UNCHANGED mainVars

NextAnalyzer ==
    \/ AnalyzeStart
    \/ AnalyzeBufferEnd
    \/ AnalyzeZeroPointer
    \/ AnalyzeObject

AnalyzerSpec == InitAnalyzer /\ [][NextAnalyzer]_vars

(***************************************************************************)
(* The property specification: one property table in a small buffer, with  *)
(* every leading byte of its first property, cut at every length up to     *)
(* MaxPropLen.  Either analyze_object_properties is called on it, or       *)
(* decode_property_table_header and then decode_property_entry at the      *)
(* offset the header call returned, as analyze_property_table does.        *)
(***************************************************************************)
\* bytes after the leading byte: low six bits 0, 9 and 3
PropSecondBytes == {0, 9, 195}

\* offset of the first property of the table at t with a name of n words
LeadOffset(t, n) == t + 1 + 2 * n

PropertyBuffer(t, n, lead, second, len) ==
    [k \in 1..len |->
        IF k - 1 = t THEN n
        ELSE IF k - 1 = LeadOffset(t, n) THEN lead
        ELSE IF k - 1 = LeadOffset(t, n) + 1 THEN second
        ELSE Fill(k - 1)]

InitProperty ==
    /\ \E t \in 0..MaxTable, n \in 0..MaxName, lead \in 0..255,
          second \in PropSecondBytes, len \in 0..MaxPropLen :
          /\ data = PropertyBuffer(t, n, lead, second, len)
          /\ prop_table_addr = t
    /\ fcall = "none"
    /\ header = None
    /\ entry = None
    /\ walk = None
    /\ decoded = None
    /\ table_result = None
    /\ TracerIdle
    /\ AnalyzerIdle
    /\ MainIdle

\* one call analyze_object_properties(obj_num, prop_table_addr)
AnalyzeObjectProperties ==
    /\ fcall = "none"
    /\ \E obj \in 1..MaxObject :
          /\ obj_num' = obj
          /\ walk' = analyze_object_properties(data, obj, prop_table_addr)
    /\ fcall' = "analyze_object_properties"
    /\ UNCHANGED <<data, tracerVars, object_table_addr, astate, entry_addr,
                   objects, violations, stop, prop_table_addr, header, entry,
                   decoded, table_result>>
    /\ UNCHANGED mainVars

\* one call decode_property_table_header(data, prop_table_addr)
DecodeHeader ==
    /\ fcall = "none"
    /\ header' = decode_property_table_header(data, prop_table_addr)
    /\ fcall' = "decode_property_table_header"
    /\ UNCHANGED <<data, tracerVars, analyzerVars, prop_table_addr, entry,
                   walk, decoded, table_result>>
    /\ UNCHANGED mainVars

\* one call decode_property_entry(data, props_start)
DecodeEntry ==
    /\ fcall = "decode_property_table_header"
    /\ entry' = decode_property_entry(data, header.properties_start)
    /\ fcall' = "decode_property_entry"
    /\ UNCHANGED <<data, tracerVars, analyzerVars, prop_table_addr, header,
                   walk, decoded, table_result>>
    /\ UNCHANGED mainVars

NextProperty ==
    \/ AnalyzeObjectProperties
    \/ DecodeHeader
    \/ DecodeEntry

PropertySpec == InitProperty /\ [][NextProperty]_vars

(***************************************************************************)
(* Truncated buffers: besides the property functions, one call of          *)
(* decode_instruction_at at any offset of the same cut buffers, the end of *)
(* the buffer included.                                                    *)
(***************************************************************************)
\* one call decode_instruction_at(p)
DecodeAt ==
    /\ fcall = "none"
    /\ ~called
    /\ \E p \in 0..Len(data) :
          /\ dpc' = p
          /\ result' = decode_instruction_at(data, p)
    /\ called' = TRUE
    /\ fcall' = "decode_instruction_at"
    /\ UNCHANGED <<data, high_memory, start_pc, static_memory,
                   max_instructions, tstate, pc, i, steps, oob, second_seq>>
    /\ UNCHANGED <<analyzerVars, prop_table_addr, header, entry, walk,
                   decoded, table_result, mainVars>>

NextBounds ==
    \/ AnalyzeObjectProperties
    \/ DecodeHeader
    \/ DecodeEntry
    \/ DecodeAt

BoundsSpec == InitProperty /\ [][NextBounds]_vars

(***************************************************************************)
(* Every leading byte under the property analyzer: one object whose        *)
(* property table has an empty name and a first property with that leading *)
(* byte, alone or followed by an entry with a zero pointer.  The table is  *)
(* walked by analyze_properties and by a direct call of                    *)
(* analyze_object_properties.                                              *)
(***************************************************************************)
SizeKinds == {<<"area">>, <<"area", "zero">>}

InitSize ==
    /\ \E kinds \in SizeKinds, lead \in 0..255, second \in PropSecondBytes :
          /\ data = SmallBuffer(12, kinds, <<0, lead, second>>)
          /\ prop_table_addr = Pointer("area", 12, Len(kinds))
    /\ object_table_addr = unpack_H(Slice(data, 10, 12))
    /\ astate = "idle"
    /\ obj_num = 0
    /\ entry_addr = 0
    /\ objects = <<>>
    /\ violations = <<>>
    /\ stop = ""
    /\ fcall = "none"
    /\ header = None
    /\ entry = None
    /\ walk = None
    /\ decoded = None
    /\ table_result = None
    /\ TracerIdle
    /\ Constructed

NextSize ==
    \/ AnalyzeStart
    \/ AnalyzeBufferEnd
    \/ AnalyzeZeroPointer
    \/ AnalyzeObject
    \/ AnalyzeObjectProperties

SizeSpec == InitSize /\ [][NextSize]_vars

(***************************************************************************)
(* The two walkers of a property table on one file: a call of              *)
(* analyze_object_properties and a call of analyze_property_table at the   *)
(* same table address.  The buffers of the property specification, and     *)
(* tables whose name fills the 200 bytes analyze_property_table reads.     *)
(***************************************************************************)
\* a terminator, property 1 of size 2, property 1 of size 3
LongLeads == {0, 33, 65}

LongNameBuffer(n, lead) == PropertyBuffer(0, n, lead, 0, LeadOffset(0, n) + 3)

InitTable ==
    /\ \/ \E t \in 0..MaxTable, n \in 0..MaxName, lead \in 0..255,
             second \in PropSecondBytes, len \in 0..MaxPropLen :
             /\ data = PropertyBuffer(t, n, lead, second, len)
             /\ prop_table_addr = t
       \/ \E n \in (MaxLongName - 1)..MaxLongName, lead \in LongLeads :
             /\ data = LongNameBuffer(n, lead)
             /\ prop_table_addr = 0
    /\ fcall = "none"
    /\ header = None
    /\ entry = None
    /\ walk = None
    /\ decoded = None
    /\ table_result = None
    /\ TracerIdle
    /\ AnalyzerIdle
    /\ MainIdle

\* one call analyze_property_table(binary_file, prop_table_addr)
AnalyzePropertyTable ==
    /\ table_result = None
    /\ table_result' = analyze_property_table(data, prop_table_addr)
    /\ UNCHANGED <<data, tracerVars, analyzerVars, prop_table_addr, fcall,
                   header, entry, walk, decoded, mainVars>>

NextTable ==
    \/ AnalyzeObjectProperties
    \/ AnalyzePropertyTable

TableSpec == InitTable /\ [][NextTable]_vars

(***************************************************************************)
(* The text specification: one call of decode_zmachine_text.  Inputs: one  *)
(* word with every combination of three codes and end bit; up to MaxWords  *)
(* words over a space, a shift and a letter, with and without end bit; each*)
(* with and without a trailing odd byte.                                   *)
(***************************************************************************)
\* the two bytes of the word with end bit top and codes c1, c2, c3
WordBytes(top, c1, c2, c3) ==
    LET w == 32768 * top + 1024 * c1 + 32 * c2 + c3
    IN  <<w \div 256, w % 256>>

\* space, shift, "b"
RepCodes == {0, 5, 7}

RepWords ==
    {WordBytes(top, c1, c2, c3) :
        top \in 0..1, c1 \in RepCodes, c2 \in RepCodes, c3 \in RepCodes}

RECURSIVE Flatten(_)
Flatten(ws) == IF ws = <<>> THEN <<>> ELSE ws[1] \o Flatten(Tail(ws))

\* no trailing byte, or one with its top bit set
OddTails == {<<>>, <<199>>}

InitText ==
    /\ \E tail \in OddTails :
          \/ \E top \in 0..1, c1 \in 0..31, c2 \in 0..31, c3 \in 0..31 :
                data = WordBytes(top, c1, c2, c3) \o tail
          \/ \E n \in 0..MaxWords : \E ws \in [1..n -> RepWords] :
                data = Flatten(ws) \o tail
    /\ prop_table_addr = 0
    /\ fcall = "none"
    /\ header = None
    /\ entry = None
    /\ walk = None
    /\ decoded = None
    /\ table_result = None
    /\ TracerIdle
    /\ AnalyzerIdle
    /\ MainIdle

\* one call decode_zmachine_text(data): the text it returns and the text
\* it had built before the final strip()
DecodeText ==
    /\ fcall = "none"
    /\ decoded' = [untrimmed |-> text_loop(data, 0, ""),
                   text |-> decode_zmachine_text(data)]
    /\ fcall' = "decode_zmachine_text"
    /\ UNCHANGED <<data, tracerVars, analyzerVars, prop_table_addr, header,
                   entry, walk, table_result>>
    /\ UNCHANGED mainVars

NextText == DecodeText

TextSpec == InitText /\ [][NextText]_vars

(***************************************************************************)
(* The run specification: a file is read and a program is run on it.       *)
(* Either the tracer is constructed (ZMachineAnalyzer.__init__), or main   *)
(* of analyze_z3_properties.py runs: constructor, analyze_properties,      *)
(* print_violations_summary, sys.exit.  Files: bare files of every length  *)
(* up to MaxFile, and the small buffers of the analyzer specification.     *)
(***************************************************************************)
\* ZMachineAnalyzer.__init__: the header fields, or the exception raised by
\* the first read that fails
ZMachineHeader(d) ==
    LET version == Subscript(d, 0)
        words == [k \in 1..6 |-> HeaderWord(d, 2 + 2 * k)]
    IN  IF version = IndexError
            THEN [raised |-> TRUE, error |-> "IndexError"]
        ELSE IF \E k \in 1..6 : words[k] = StructError
            THEN [raised |-> TRUE, error |-> "struct.error"]
        ELSE [raised |-> FALSE, version |-> version,
              high_memory |-> words[1], start_pc |-> words[2],
              dictionary |-> words[3], object_table |-> words[4],
              global_variables |-> words[5], static_memory |-> words[6]]

\* Z3PropertyAnalyzer.__init__
Z3Header(d) ==
    LET version == Subscript(d, 0)
        table_addr == HeaderWord(d, 10)
    IN  IF version = IndexError
            THEN [raised |-> TRUE, error |-> "IndexError"]
        ELSE IF table_addr = StructError
            THEN [raised |-> TRUE, error |-> "struct.error"]
        ELSE [raised |-> FALSE, version |-> version,
              object_table_addr |-> table_addr]

sys_exit_Failure(n) == 1

\* sys.exit(n) for an integer n >= 0: the status the parent process sees
sys_exit(n) == n % 256

\* sys.exit(1) of the exception handlers; also the status of a Python
\* process that dies of an uncaught exception
ErrorStatus == 1

\* version 3, then bytes of one value
BareFile(n, c) == [k \in 1..n |-> IF k = 1 THEN 3 ELSE c]

InitMain ==
    /\ \/ \E n \in 0..MaxFile, c \in {0, 255} : data = BareFile(n, c)
       \/ \E t \in 12..(12 + MaxPad), k \in 0..MaxEntries :
            \E kinds \in [1..k -> {"zero", "defaults", "area"}],
               area \in Areas :
               data = SmallBuffer(t, kinds, area)
    /\ high_memory = 0
    /\ start_pc = 0
    /\ static_memory = 0
    /\ dpc = 0
    /\ called = FALSE
    /\ result = EOF
    /\ max_instructions = 0
    /\ tstate = "new"
    /\ pc = 0
    /\ i = 0
    /\ steps = <<>>
    /\ oob = FALSE
    /\ second_seq = <<>>
    /\ object_table_addr = 0
    /\ astate = "new"
    /\ obj_num = 0
    /\ entry_addr = 0
    /\ objects = <<>>
    /\ violations = <<>>
    /\ stop = ""
    /\ FuncIdle
    /\ MainIdle

\* ZMachineAnalyzer(filename) in main of debug_execution_trace.py: an
\* exception is not caught, the process dies before anything is printed
ConstructTracer ==
    /\ tstate = "new"
    /\ astate = "new"
    /\ LET h == ZMachineHeader(data)
       IN  IF h.raised
               THEN /\ tstate' = "raised"
                    /\ error' = Some(h.error)
                    /\ exit_status' = Some(ErrorStatus)
                    /\ UNCHANGED <<high_memory, start_pc, static_memory,
                                   output>>
           ELSE /\ tstate' = "idle"
                /\ high_memory' = h.high_memory
                /\ start_pc' = h.start_pc
                /\ static_memory' = h.static_memory
                /\ output' = <<"header">>
                /\ UNCHANGED <<error, exit_status>>
    /\ UNCHANGED <<data, dpc, called, result, max_instructions, pc, i, steps,
                   oob, second_seq, analyzerVars, funcVars>>

\* Z3PropertyAnalyzer(filename) in main of analyze_z3_properties.py: an
\* exception is caught, "Error analyzing file" is printed, sys.exit(1)
ConstructAnalyzer ==
    /\ tstate = "new"
    /\ astate = "new"
    /\ LET h == Z3Header(data)
       IN  IF h.raised
               THEN /\ astate' = "raised"
                    /\ error' = Some(h.error)
                    /\ output' = <<"error">>
                    /\ exit_status' = Some(ErrorStatus)
                    /\ UNCHANGED object_table_addr
           ELSE /\ astate' = "idle"
                /\ object_table_addr' = h.object_table_addr
                /\ output' = <<"header">>
                /\ UNCHANGED <<error, exit_status>>
    /\ UNCHANGED <<data, tracerVars, obj_num, entry_addr, objects,
                   violations, stop, funcVars>>

\* analyze_properties has returned: print_violations_summary(violations)
\* and sys.exit(len(violations))
MainExit ==
    /\ astate = "done"
    /\ exit_status = None
    /\ output' = Append(output, "summary")
    /\ exit_status' = Some(sys_exit(Len(violations)))
    /\ UNCHANGED <<data, tracerVars, analyzerVars, funcVars, error>>

NextMain ==
    \/ ConstructTracer
    \/ ConstructAnalyzer
    \/ AnalyzeStart
    \/ AnalyzeBufferEnd
    \/ AnalyzeZeroPointer
    \/ AnalyzeObject
    \/ MainExit

MainSpec == InitMain /\ [][NextMain]_vars

(***************************************************************************)
(* Properties of the instruction decoder (checked under DecodeSpec).       *)
(***************************************************************************)
\* the decode call has returned and its pc was inside the buffer
DecodedInRange == called /\ dpc < Len(data)

\* the opcode byte the call decoded
OpcodeByte == data[dpc + 1]

IsLongForm == DecodedInRange /\ OpcodeByte < 128
IsShortForm == DecodedInRange /\ OpcodeByte >= 128 /\ OpcodeByte < 192
IsVariableForm == DecodedInRange /\ OpcodeByte >= 192

\* the buffer's byte at offset a, 0 past the end
ByteOrZero(a) == IF a < Len(data) THEN data[a + 1] ELSE 0

\* the big-endian word at offsets a, a+1; 0 unless both lie in the buffer
WordOrZero(a) ==
    IF a + 1 < Len(data) THEN 256 * data[a + 1] + data[a + 2] ELSE 0

\* C1 as stated: an in-range decode advances pc by at least 1 and at most 9.
C1_AdvanceAtMost9 ==
    DecodedInRange =>
        /\ result.next_pc > dpc
        /\ result.next_pc - dpc <= 9

\* C1 (amended): an in-range decode advances pc by at least 1 and at most
\* 11 bytes (opcode, type byte, four 2-byte operands, store variable).
C1_AdvanceAtMost11 ==
    DecodedInRange =>
        /\ result.next_pc > dpc
        /\ result.next_pc - dpc <= 11

C1_Witness ==
    /\ DecodedInRange
    /\ result.next_pc - dpc = 11
    /\ Len(result.operands) = 4

\* C2: decode_instruction_at never raises, also on an instruction cut by
\* the end of the buffer; with pc at or past the end it returns the
\* sentinel ("EOF", pc, [], None).
C2_NeverRaises ==
    called =>
        /\ ~result.raised
        /\ dpc >= Len(data) =>
              /\ result.name = "EOF"
              /\ result.next_pc = dpc
              /\ result.operands = <<>>
              /\ result.store_var = None

\* an instruction whose bytes run past the end of the buffer was decoded
C2_Witness ==
    /\ DecodedInRange
    /\ ~result.raised
    /\ result.next_pc > Len(data)
    /\ Len(result.operands) = 4

\* C3 as stated: the long-form table reads loadw, loadb and get_prop decode
\* with a store variable, and the variable-form storew, storeb, put_prop
\* and print_char decode without one.
C3_StoreOnlyForResults ==
    /\ (IsLongForm /\ OpcodeByte % 32 \in {15, 16, 17})
          => result.store_var # None
    /\ (IsVariableForm /\ OpcodeByte % 32 \in {1, 2, 3, 5})
          => result.store_var = None

\* the k-th (0-based) two-bit field of the type byte, most significant first
TypeField(k) == (ByteOrZero(dpc + 1) \div (4 ^ (3 - k))) % 4

\* the number of fields before the first one equal to 0b11
OperandCount ==
    IF \E k \in 0..3 : TypeField(k) = 3
        THEN CHOOSE k \in 0..3 :
                /\ TypeField(k) = 3
                /\ \A j \in 0..(k - 1) : TypeField(j) # 3
        ELSE 4

FieldWidth(k) == IF TypeField(k) = 0 THEN 2 ELSE 1

RECURSIVE OperandOffset(_)
\* the offset of the k-th operand: after the type byte and the operands before it
OperandOffset(k) ==
    IF k = 0 THEN dpc + 2 ELSE OperandOffset(k - 1) + FieldWidth(k - 1)

\* C4: a variable-form instruction takes its operands from the four 2-bit
\* fields of the type byte, most significant pair first (00 a 2-byte
\* constant, 01 and 10 one byte), up to the first field 0b11; call_vs with
\* a first field of 0b11 has no operands.
C4_VariableOperands ==
    IsVariableForm =>
        /\ Len(result.operands) = OperandCount
        /\ \A k \in 0..(OperandCount - 1) :
              result.operands[k + 1] =
                 IF TypeField(k) = 0
                     THEN WordOrZero(OperandOffset(k))
                     ELSE ByteOrZero(OperandOffset(k))
        /\ (OpcodeByte % 32 = 0 /\ ByteOrZero(dpc + 1) \div 64 = 3)
              => /\ result.name = "call_vs"
                 /\ result.operands = <<>>

\* call_vs with the first field 0b11 and later fields that are not
C4_Witness ==
    /\ IsVariableForm
    /\ OpcodeByte = 224
    /\ Len(data) >= dpc + 2
    /\ ByteOrZero(dpc + 1) = 197
    /\ result.name = "call_vs"
    /\ result.operands = <<>>

\* C5: a long-form instruction has exactly two operands of one byte each,
\* whatever bits 6 and 5 are: next_pc is pc + 3 without a store variable
\* and pc + 4 with one; byte 0x14 is "add" with a store variable.
C5_LongForm ==
    IsLongForm =>
        /\ result.operands = <<ByteOrZero(dpc + 1), ByteOrZero(dpc + 2)>>
        /\ result.store_var = None => result.next_pc = dpc + 3
        /\ result.store_var # None =>
              /\ result.next_pc = dpc + 4
              /\ result.store_var = Some(ByteOrZero(dpc + 3))
        /\ OpcodeByte = 20 =>
              /\ result.name = "add"
              /\ result.store_var # None

C5_Witness ==
    /\ IsLongForm
    /\ OpcodeByte = 20
    /\ Len(data) >= dpc + 4
    /\ result.name = "add"
    /\ Len(result.operands) = 2
    /\ result.store_var = Some(data[dpc + 4])

\* C6: in a short-form instruction bits 5-4 select the operand: 00 a
\* 2-byte big-endian constant, 01 and 10 one byte, 11 none, and then there
\* is no store variable and next_pc = pc + 1; 0xB0 is "rtrue".
C6_ShortForm ==
    IsShortForm =>
        LET op_type == (OpcodeByte \div 16) % 4
            width == IF op_type = 0 THEN 2 ELSE IF op_type = 3 THEN 0 ELSE 1
        IN  /\ op_type = 0 => result.operands = <<WordOrZero(dpc + 1)>>
            /\ op_type \in {1, 2} => result.operands = <<ByteOrZero(dpc + 1)>>
            /\ op_type = 3 =>
                  /\ result.operands = <<>>
                  /\ result.store_var = None
                  /\ result.next_pc = dpc + 1
            /\ result.next_pc = dpc + 1 + width + Len(result.store_var)
            /\ OpcodeByte = 176 => result.name = "rtrue"

\* a large constant with both bytes in the buffer was read
C6_Witness ==
    /\ IsShortForm
    /\ (OpcodeByte \div 16) % 4 = 0
    /\ Len(data) >= dpc + 3
    /\ result.operands = <<256 * data[dpc + 2] + data[dpc + 3]>>
    /\ result.operands[1] > 255

\* C7: every opcode byte resolves to a name; the long-form opcodes 0x00 and
\* 0x1D-0x1F, and only they, get the synthesized "unknown" name, and still
\* two operands and a next_pc.
C7_NamesTotal ==
    DecodedInRange =>
        /\ ~result.raised
        /\ result.name # ""
        /\ result.next_pc > dpc
        /\ startswith(result.name, "unknown")
              <=> (IsLongForm /\ OpcodeByte % 32 \in {0, 29, 30, 31})
        /\ (IsLongForm /\ OpcodeByte % 32 \in {0, 29, 30, 31}) =>
              /\ result.name = "unknown_2op_" \o Hex02(OpcodeByte % 32)
              /\ Len(result.operands) = 2
              /\ result.next_pc = dpc + 3

C7_Witness ==
    /\ IsLongForm
    /\ OpcodeByte = 125
    /\ result.name = "unknown_2op_1d"
    /\ Len(result.operands) = 2

(***************************************************************************)
(* Properties of the tracer (checked under TraceSpec).                     *)
(***************************************************************************)
Terminal == {"rtrue", "rfalse", "quit"}

NoTerminalStep == \A k \in 1..Len(steps) : steps[k].name \notin Terminal

\* C8: the trace terminates and records at most max_instructions steps;
\* when no decoded instruction is terminal and pc never leaves the buffer
\* it ends after exactly max_instructions steps.  Termination: no
\* iteration raises, every iteration that does not end the loop has
\* recorded a step (i counts them), and i never passes max_instructions.
C8_TraceHalts ==
    /\ Len(steps) <= max_instructions
    /\ (tstate = "done" /\ NoTerminalStep /\ ~oob)
          => Len(steps) = max_instructions
    /\ tstate \in {"idle", "loop", "done"}
    /\ tstate = "loop" =>
          /\ i = Len(steps)
          /\ i <= max_instructions

\* termination itself: under FairTraceSpec every trace reaches "done"
TraceTerminates == <>(tstate = "done")

C8_Witness ==
    /\ tstate = "done"
    /\ NoTerminalStep
    /\ ~oob
    /\ max_instructions = 3
    /\ Len(steps) = 3

\* C9: the trace stops at the first terminal opcode (rtrue, rfalse, quit):
\* that step is the last one and carries its own annotation; no other
\* opcode stops the trace.
C9_StopsAtTerminal ==
    /\ \A k \in 1..Len(steps) :
          /\ steps[k].name \in Terminal => (k = Len(steps) /\ tstate = "done")
          /\ steps[k].name = "rtrue" <=> steps[k].special = "return TRUE"
          /\ steps[k].name = "rfalse" <=> steps[k].special = "return FALSE"
          /\ steps[k].name = "quit" <=> steps[k].special = "quit"
    /\ (tstate = "done" /\ ~oob /\ Len(steps) < max_instructions)
          => (steps # <<>> /\ steps[Len(steps)].name \in Terminal)
    /\ tstate \in {"idle", "loop", "done"}

\* a ret and then a quit: the ret did not stop the trace, the quit did
C9_Witness ==
    /\ tstate = "done"
    /\ max_instructions = 3
    /\ Len(steps) = 2
    /\ steps[1].name = "ret"
    /\ steps[2].name = "quit"
    /\ steps[2].special = "quit"

\* C11 as stated: each step's raw bytes are exactly the bytes at addresses
\* pc .. next_pc - 1, whatever the length of the instruction.
C11_RawBytesExact ==
    \A k \in 1..Len(steps) :
        /\ Len(steps[k].raw_bytes) = steps[k].next_pc - steps[k].pc
        /\ \A j \in 1..Len(steps[k].raw_bytes) :
              steps[k].pc + j <= Len(data)
                 => steps[k].raw_bytes[j] = Hex02(data[steps[k].pc + j])

\* C11 amended: each step's raw bytes are the first min(8, next_pc - pc)
\* bytes from pc on, in order, each printed as two hex digits; an address
\* past the end of the buffer is printed as 00.
C11_RawBytesFirstEight ==
    \A k \in 1..Len(steps) :
        /\ Len(steps[k].raw_bytes)
              = Min(8, steps[k].next_pc - steps[k].pc)
        /\ \A j \in 1..Len(steps[k].raw_bytes) :
              steps[k].raw_bytes[j]
                 = IF steps[k].pc + j <= Len(data)
                       THEN Hex02(data[steps[k].pc + j])
                   ELSE "00"

\* call_vs with four large constants: eleven bytes consumed, eight recorded
C11_Witness ==
    \E k \in 1..Len(steps) :
        /\ steps[k].name = "call_vs"
        /\ steps[k].next_pc - steps[k].pc = 11
        /\ Len(steps[k].raw_bytes) = 8
        /\ steps[k].raw_bytes[1] = "e0"
        /\ steps[k].raw_bytes[3] = "b0"

\* classify(address, header) of the specification
Classify(address) ==
    IF address < static_memory THEN "Dynamic"
    ELSE IF address < high_memory THEN "Static"
    ELSE "High"

\* the region a step's note stands for
NoteRegion(note) ==
    IF note = "WARNING" THEN "High"
    ELSE IF note = "INFO" THEN "Static"
    ELSE "Dynamic"

\* C10 as stated: each step's region label is classify(address), and the
\* high-memory warning is issued exactly when address >= highMemoryBase.
C10_RegionLabels ==
    \A k \in 1..Len(steps) :
        /\ NoteRegion(steps[k].region) = Classify(steps[k].pc)
        /\ steps[k].region = "WARNING" <=> steps[k].pc >= high_memory

(***************************************************************************)
(* Properties of the property analyzer (checked under AnalyzerSpec).       *)
(***************************************************************************)
\* C12: analyze_properties analyzes at most 100 objects and at most 50
\* properties of each, and always terminates, also on a buffer without a
\* zero pointer or a zero size byte: every iteration that does not end the
\* loop adds one object and moves nine bytes on, the object count never
\* passes 100, no iteration raises, and within an object each property
\* starts after the one before.
C12_AnalysisBounded ==
    /\ Len(objects) <= 100
    /\ \A o \in 1..Len(objects) :
          LET props == objects[o].analysis.properties
          IN  /\ Len(props) <= 50
              /\ \A j \in 1..(Len(props) - 1) :
                    props[j + 1].address > props[j].address
    /\ astate \in {"idle", "loop", "done"}
    /\ astate = "loop" =>
          /\ obj_num = Len(objects) + 1
          /\ obj_num <= 100
          /\ entry_addr = object_table_addr + 62 + 9 * Len(objects)
    /\ astate = "done" => stop \in {"buffer", "zero", "limit"}

\* a buffer of ones: 100 objects of 50 properties, then the limit
C12_Witness ==
    /\ astate = "done"
    /\ stop = "limit"
    /\ Len(objects) = 100
    /\ \A j \in 1..BigLen : data[j] # 0
    /\ Len(objects[100].analysis.properties) = 50
    /\ ~objects[100].analysis.terminator

\* the address of object entry n
EntryAddress(n) == object_table_addr + 62 + 9 * (n - 1)

\* entry n lies fully inside the buffer
EntryInside(n) == EntryAddress(n) + 9 <= Len(data)

\* the big-endian word in the last two bytes of entry n
EntryPointer(n) ==
    256 * data[EntryAddress(n) + 8] + data[EntryAddress(n) + 9]

\* C13 as stated: the object walk visits the entries at
\* object_table_addr + 62 + 9 * (n - 1), numbered from 1, with the
\* property-table pointer read big-endian from the last two bytes of the
\* entry; it ends only at the first zero pointer, at the cap of 100 objects,
\* or when the next entry does not lie fully inside the buffer, so every
\* entry fully inside the buffer before that point is analyzed.
C13_ObjectWalk ==
    /\ \A n \in 1..Len(objects) :
          /\ objects[n].object = n
          /\ objects[n].entry = EntryAddress(n)
          /\ EntryInside(n)
          /\ objects[n].prop_table = EntryPointer(n)
          /\ objects[n].prop_table # 0
    /\ astate = "done" =>
          \/ Len(objects) = 100
          \/ ~EntryInside(Len(objects) + 1)
          \/ EntryPointer(Len(objects) + 1) = 0

(***************************************************************************)
(* Properties of the property walkers (checked under PropertySpec).        *)
(***************************************************************************)
\* analyze_object_properties has returned from a table inside the buffer
Walked == fcall = "analyze_object_properties" /\ ~walk.out_of_bounds

\* decode_property_entry has returned from an offset inside the buffer
EntryDecoded ==
    fcall = "decode_property_entry" /\ header.properties_start < Len(data)

\* the leading byte decode_property_entry was called on
LeadByte == data[header.properties_start + 1]

\* the violations that the properties of a walk call for
RECURSIVE Oversized(_, _)
Oversized(props, obj) ==
    IF props = <<>> THEN <<>>
    ELSE (IF props[1].size > 8
              THEN <<[object |-> obj, property |-> props[1].number,
                      size |-> props[1].size,
                      size_byte |-> props[1].size_byte,
                      address |-> props[1].address]>>
          ELSE <<>>) \o Oversized(Tail(props), obj)

\* a property list that holds one property with leading byte b, nine data
\* bytes and the terminator, in a table without a name at address 0
Crafted(b) == <<0, b, 17, 34, 51, 68, 85, 102, 119, 136, 153, 0>>

\* C14 as stated: there is a size byte that encodes size 9, and the
\* analyzer, called for an object on the crafted property that carries it,
\* yields exactly one Violation, with size 9 and the object number, property
\* number, size byte and address.
C14_SizeNineViolation ==
    fcall = "analyze_object_properties" =>
        \E b \in 1..255 :
            analyze_object_properties(Crafted(b), obj_num, 0).violations
               = <<[object |-> obj_num, property |-> b % 32, size |-> 9,
                    size_byte |-> b, address |-> 1]>>

\* C14 amended: a Violation is recorded exactly for the properties whose
\* decoded size exceeds 8, in walk order, with the object number, property
\* number, size, size byte and address of the property; a property of the
\* largest size a size byte encodes, 8, yields none.
C14_ViolationIffOversized ==
    Walked =>
        /\ walk.violations = Oversized(walk.properties, obj_num)
        /\ \A j \in 1..Len(walk.properties) :
              LET q == walk.properties[j]
              IN  /\ q.size_byte = data[q.address + 1]
                  /\ q.size = (q.size_byte \div 32) + 1

\* a property of size 8 has been walked and no Violation recorded
C14_Witness ==
    /\ Walked
    /\ walk.properties # <<>>
    /\ walk.properties[1].size_byte = 229
    /\ walk.properties[1].size = 8
    /\ walk.violations = <<>>

\* the size the byte after an extended leading byte encodes: its low six
\* bits, 0 meaning 64
ExtendedSize(second) == IF second % 64 = 0 THEN 64 ELSE second % 64

\* C15 as stated: for an entry whose leading byte has its top bit set, the
\* property number is the low six bits of the leading byte and the size is
\* the low six bits of the following byte, 0 meaning 64; the data begin
\* after those two bytes and the next entry begins size bytes later.  Both
\* walkers: decode_property_entry and the analyzer's property loop.
C15_ExtendedEncoding ==
    /\ (EntryDecoded /\ LeadByte >= 128
           /\ header.properties_start + 1 < Len(data)) =>
          LET o == header.properties_start
              size == ExtendedSize(data[o + 2])
          IN  /\ entry.prop_number = LeadByte % 64
              /\ entry.prop_size = size
              /\ entry.property_data = Slice(data, o + 2, o + 2 + size)
              /\ entry.next_offset = o + 2 + size
    /\ \A j \in 1..(IF Walked THEN Len(walk.properties) ELSE 0) :
          LET q == walk.properties[j]
              next == IF j < Len(walk.properties)
                          THEN walk.properties[j + 1].address
                      ELSE walk.end
          IN  (q.size_byte >= 128 /\ q.address + 1 < Len(data)) =>
                 /\ q.number = q.size_byte % 64
                 /\ q.size = ExtendedSize(data[q.address + 2])
                 /\ next = q.address + 2 + q.size

\* the bytes of d at offsets a .. a + n - 1 that lie inside d
BytesAt(d, a, n) ==
    [k \in 1..(IF Len(d) - a < 0 THEN 0 ELSE Min(n, Len(d) - a)) |->
        d[a + k]]

\* C16: for an entry whose leading byte has its top bit clear, the property
\* number is the low five bits and the size is (bits 5-7) + 1, within 1..8;
\* the entry occupies 1 + size bytes, its data are the size bytes after the
\* leading byte, and the next entry is decoded at address + 1 + size.  Both
\* walkers: decode_property_entry and the analyzer's property loop.
C16_BasicEncoding ==
    /\ (EntryDecoded /\ LeadByte < 128) =>
          LET o == header.properties_start
              size == (LeadByte \div 32) + 1
          IN  /\ entry.prop_number = LeadByte % 32
              /\ entry.prop_size = size
              /\ size \in 1..8
              /\ entry.property_data = BytesAt(data, o + 1, size)
              /\ entry.next_offset = o + 1 + size
    /\ \A j \in 1..(IF Walked THEN Len(walk.properties) ELSE 0) :
          LET q == walk.properties[j]
              next == IF j < Len(walk.properties)
                          THEN walk.properties[j + 1].address
                      ELSE walk.end
          IN  /\ q.size_byte = data[q.address + 1]
              /\ q.size_byte < 128 =>
                    /\ q.number = q.size_byte % 32
                    /\ q.size = (q.size_byte \div 32) + 1
                    /\ q.size \in 1..8
                    /\ next = q.address + 1 + q.size

\* property 2 of size 2 (leading byte 0x22), then the next property three
\* bytes later
C16_Witness ==
    /\ Walked
    /\ Len(walk.properties) >= 2
    /\ walk.properties[1].size_byte = 34
    /\ walk.properties[1].number = 2
    /\ walk.properties[1].size = 2
    /\ walk.properties[2].address = walk.properties[1].address + 3

\* C17: the analyzer's property walk begins at property-table address + 1 +
\* 2 * name length (so does the walk that decode_property_table_header
\* starts); a leading byte 0 ends it and no other leading byte does: without
\* a terminator the walk ends only at the end of the buffer or at the limit
\* of 50 properties; a list that is only the terminator yields no property
\* and no violation.
C17_PropertyWalk ==
    /\ Walked =>
          LET props == walk.properties
              start == prop_table_addr + 1 + 2 * data[prop_table_addr + 1]
          IN  /\ walk.prop_start = start
              /\ props # <<>> => props[1].address = start
              /\ \A j \in 1..Len(props) : data[props[j].address + 1] # 0
              /\ walk.end = IF props = <<>> THEN start
                            ELSE props[Len(props)].address + 1
                                    + props[Len(props)].size
              /\ walk.terminator =>
                    (walk.end < Len(data) /\ data[walk.end + 1] = 0)
              /\ ~walk.terminator =>
                    (walk.end >= Len(data) \/ Len(props) = 50)
              /\ (start < Len(data) /\ data[start + 1] = 0) =>
                    /\ props = <<>>
                    /\ walk.violations = <<>>
                    /\ walk.terminator
    /\ (fcall \in {"decode_property_table_header", "decode_property_entry"}
           /\ prop_table_addr < Len(data)) =>
          /\ header.name_length = data[prop_table_addr + 1]
          /\ header.properties_start
                = prop_table_addr + 1 + 2 * data[prop_table_addr + 1]

\* a table with a name of one word and a property list that is only the
\* terminator
C17_Witness ==
    /\ Walked
    /\ walk.name_len_words = 1
    /\ walk.prop_start = prop_table_addr + 3
    /\ walk.prop_start < Len(data)
    /\ data[walk.prop_start + 1] = 0
    /\ walk.terminator
    /\ walk.properties = <<>>
    /\ walk.violations = <<>>

(***************************************************************************)
(* Properties of the text decoder (checked under TextSpec).                *)
(***************************************************************************)
TextDecoded == fcall = "decode_zmachine_text"

\* C18 as stated: the text returned is the decoded text right-trimmed only:
\* trailing spaces are removed, leading spaces are kept.
C18_RightTrimOnly ==
    TextDecoded =>
        /\ decoded.text = rstrip(decoded.untrimmed)
        /\ (Len(decoded.untrimmed) > 0
               /\ SubSeq(decoded.untrimmed, 1, 1) = " "
               /\ decoded.text # "") =>
              SubSeq(decoded.text, 1, 1) = " "

\* the complete words of the input, and the n-th of them
NumWords == Len(data) \div 2

WordAt(n) == 256 * data[2 * n - 1] + data[2 * n]

\* the words that carry the end bit
Marked == {n \in 1..NumWords : WordAt(n) >= 32768}

\* the last word the claim has decoded: the first marked one, or else the
\* last complete word
LastWord ==
    IF Marked = {} THEN NumWords
    ELSE CHOOSE n \in Marked : \A k \in Marked : n <= k

\* the text of one code and of one word as the claim gives them
CodeText(c) ==
    IF c = 0 THEN " "
    ELSE IF c \in 6..31 THEN alphabet[c - 5]
    ELSE ""

WordText(w) ==
    CodeText((w \div 1024) % 32) \o CodeText((w \div 32) % 32)
       \o CodeText(w % 32)

\* the texts of the words n .. last, in order
RECURSIVE WordsText(_, _)
WordsText(n, last) ==
    IF n > last THEN "" ELSE WordText(WordAt(n)) \o WordsText(n + 1, last)

\* C19: decoding stops at the first word whose top bit is set; the three
\* codes of that word are still decoded, and no byte after it influences
\* the result: the input cut after that word decodes to the same text.
\* Without such a word decoding stops at the end of the input, and a
\* trailing odd byte is ignored.
C19_StopsAtEndBit ==
    TextDecoded =>
        LET cut == SubSeq(data, 1, 2 * LastWord)
        IN  /\ decoded.text = decode_zmachine_text(cut)
            /\ decoded.untrimmed = text_loop(cut, 0, "")
            /\ decoded.untrimmed
                  = WordsText(1, LastWord - 1)
                       \o (IF LastWord > 0 THEN WordText(WordAt(LastWord))
                           ELSE "")

\* a marked word "bbb", then an unmarked word and an odd byte
C19_Witness ==
    /\ TextDecoded
    /\ Len(data) = 5
    /\ WordAt(1) >= 32768
    /\ WordAt(2) < 32768
    /\ LastWord = 1
    /\ decoded.untrimmed = "bbb"
    /\ WordText(WordAt(2)) = "bbb"

\* the characters of a text
Chars(t) == {SubSeq(t, k, k) : k \in 1..Len(t)}

\* C20: each big-endian word is split into three 5-bit codes, bits 14-10,
\* 9-5 and 4-0 in that order; code 0 gives a space, a code in 6..31 gives
\* alphabet[code - 6], the codes 1-3 and the shift codes 4 and 5 give
\* nothing; so the untrimmed text holds only spaces and lowercase letters,
\* at most three per decoded word.
C20_CodesToText ==
    TextDecoded =>
        /\ decoded.untrimmed = WordsText(1, LastWord)
        /\ Chars(decoded.untrimmed)
              \subseteq ({" "} \cup {alphabet[k] : k \in 1..26})
        /\ Len(decoded.untrimmed) <= 3 * LastWord
        /\ \A c \in 1..5 : CodeText(c) = ""
        /\ CodeText(6) = "a" /\ CodeText(31) = "z"

\* the word with codes 6, 31, 2: "a", "z" and nothing
C20_Witness ==
    /\ TextDecoded
    /\ data = <<27, 226>>
    /\ decoded.untrimmed = "az"

(***************************************************************************)
(* Properties of a whole run (checked under MainSpec).                     *)
(***************************************************************************)
\* main of analyze_z3_properties.py has exited
AnalyzerExited == astate # "new" /\ exit_status # None

\* the most violations the two safety limits leave room for
MostViolations == ObjectLimit * PropertyLimit

\* C21 as stated: no violation and no fatal error gives status 0; a nonzero
\* violation count gives a nonzero status, the count clamped to the largest
\* status; a fatal header-parse failure gives a status that no violation
\* count gives.
C21_ExitStatus ==
    AnalyzerExited =>
        /\ (error = None /\ violations = <<>>) => exit_status = Some(0)
        /\ (error = None /\ violations # <<>>) =>
              exit_status = Some(Min(Len(violations), 255))
        /\ error # None =>
              /\ exit_status # Some(0)
              /\ \A n \in 0..MostViolations :
                    exit_status # Some(sys_exit(n))

\* C21 amended: a run without error ends with the summary and status 0,
\* its violation list being empty; a run that dies of an exception, the
\* header-parse failure included, prints the error and ends with status 1;
\* no other status occurs, and there is no status before the run ends.
C21_ExitZeroOrOne ==
    /\ AnalyzerExited =>
          /\ exit_status \in {Some(0), Some(1)}
          /\ error = None =>
                /\ exit_status = Some(0)
                /\ astate = "done"
                /\ violations = <<>>
                /\ output = <<"header", "summary">>
          /\ error # None =>
                /\ exit_status = Some(1)
                /\ astate = "raised"
                /\ output = <<"error">>
    /\ astate \in {"idle", "loop"} => exit_status = None

\* a run that analyzed two objects and exited with status 0
C21_Witness ==
    /\ AnalyzerExited
    /\ error = None
    /\ Len(objects) = 2
    /\ exit_status = Some(0)

\* the big-endian word at offset a of the file
FileWord(a) == 256 * data[a + 1] + data[a + 2]

\* a constructor that has failed did so before printing anything of the
\* report, and the run is over
FailedBeforeReport ==
    /\ error \in {Some("IndexError"), Some("struct.error")}
    /\ \A k \in 1..Len(output) : output[k] \notin {"header", "summary"}
    /\ exit_status = Some(1)
    /\ steps = <<>>
    /\ objects = <<>>

\* C22 as stated: header parsing fails exactly when the file is shorter
\* than the header, that is when a field at offsets 0, 4-15 is missing;
\* the failure is fatal and comes before any part of the report; a file of
\* at least that size always parses, whatever the values of its fields.
\* Both parsers: ZMachineAnalyzer.__init__ and Z3PropertyAnalyzer.__init__.
C22_HeaderFormatError ==
    /\ tstate # "new" =>
          /\ tstate = "raised" <=> Len(data) < 16
          /\ tstate = "raised" => FailedBeforeReport
          /\ tstate # "raised" =>
                /\ error = None
                /\ high_memory = FileWord(4)
                /\ start_pc = FileWord(6)
                /\ static_memory = FileWord(14)
    /\ astate # "new" =>
          /\ astate = "raised" <=> Len(data) < 16
          /\ astate = "raised" => FailedBeforeReport
          /\ astate # "raised" =>
                /\ error = None
                /\ object_table_addr = FileWord(10)

\* C22 amended: each parser fails exactly when a field it reads is missing:
\* the tracer's below 16 bytes (offsets 0, 4-15), the property analyzer's
\* below 12 bytes (offsets 0, 10-11); the failure is an IndexError (empty
\* file) or a struct.error, is fatal and comes before any part of the
\* report; otherwise parsing succeeds, whatever the values of the fields.
C22_HeaderTooShort ==
    /\ tstate # "new" =>
          /\ tstate = "raised" <=> Len(data) < 16
          /\ tstate = "raised" => FailedBeforeReport
          /\ tstate # "raised" =>
                /\ error = None
                /\ high_memory = FileWord(4)
                /\ start_pc = FileWord(6)
                /\ static_memory = FileWord(14)
    /\ astate # "new" =>
          /\ astate = "raised" <=> Len(data) < 12
          /\ astate = "raised" => FailedBeforeReport
          /\ astate # "raised" =>
                /\ error = None
                /\ object_table_addr = FileWord(10)
    /\ error = Some("IndexError") <=>
          (Len(data) = 0 /\ (tstate = "raised" \/ astate = "raised"))

\* a 15-byte file: the tracer's parser has failed on the last field
C22_Witness ==
    /\ Len(data) = 15
    /\ tstate = "raised"
    /\ error = Some("struct.error")
    /\ output = <<>>
    /\ exit_status = Some(1)

DecodedAt == fcall = "decode_instruction_at"

\* C23: a read at or past the end of the buffer during instruction decoding
\* gives 0 (a word whose second byte is past the end gives 0 as a whole);
\* the property walkers read no byte at or past the end; a truncated buffer
\* never makes decoding or the property walk raise.
C23_ReadsClamped ==
    /\ DecodedAt =>
          /\ ~result.raised
          /\ \A k \in 1..Len(result.operands) :
                result.operands[k] \in 0..65535
          /\ \A k \in 1..Len(result.store_var) :
                result.store_var[k] \in 0..255
          /\ dpc >= Len(data) =>
                result.name = "EOF" /\ result.next_pc = dpc
          /\ \A a \in Len(data)..(Len(data) + 2) :
                /\ get_byte(data, a) = 0
                /\ get_word(data, a) = 0
          /\ Len(data) > 0 => get_word(data, Len(data) - 1) = 0
          /\ dpc < Len(data) =>
                LET b == data[dpc + 1]
                IN  /\ b < 128 =>
                          /\ result.operands =
                                <<ByteOrZero(dpc + 1), ByteOrZero(dpc + 2)>>
                          /\ result.store_var \in
                                {None, Some(ByteOrZero(dpc + 3))}
                    /\ (b >= 128 /\ b < 144) =>
                          /\ result.operands = <<WordOrZero(dpc + 1)>>
                          /\ result.store_var \in
                                {None, Some(ByteOrZero(dpc + 3))}
                    /\ (b >= 144 /\ b < 176) =>
                          /\ result.operands = <<ByteOrZero(dpc + 1)>>
                          /\ result.store_var \in
                                {None, Some(ByteOrZero(dpc + 2))}
                    /\ (b >= 176 /\ b < 192) => result.operands = <<>>
    /\ walk # None =>
          /\ walk.out_of_bounds <=> prop_table_addr >= Len(data)
          /\ \A k \in 1..Len(walk.properties) :
                walk.properties[k].address < Len(data)
          /\ walk.terminator => walk.end < Len(data)
          /\ (~walk.out_of_bounds /\ ~walk.terminator) =>
                walk.end >= Len(data)
    /\ header # None =>
          \* the call returned (None, None, offset) without reading
          (header.properties_start = prop_table_addr <=>
              prop_table_addr >= Len(data))
    /\ entry # None =>
          \* the call returned (None, None, None, offset) without reading
          /\ entry.next_offset = header.properties_start <=>
                header.properties_start >= Len(data)
          /\ header.properties_start < Len(data) =>
                /\ Len(entry.property_data) <= entry.prop_size
                /\ \A k \in 1..Len(entry.property_data) :
                      /\ entry.next_offset - entry.prop_size + k <= Len(data)
                      /\ entry.property_data[k] =
                            data[entry.next_offset - entry.prop_size + k]
                /\ entry.next_offset <= Len(data) =>
                      Len(entry.property_data) = entry.prop_size

\* a jump (short form, large constant) whose operand word has only its
\* first byte inside the buffer: the operand is 0, not that byte
C23_Witness ==
    /\ DecodedAt
    /\ dpc + 2 = Len(data)
    /\ data[dpc + 1] = 140
    /\ data[dpc + 2] # 0
    /\ result.name = "jump"
    /\ result.operands = <<0>>
    /\ result.next_pc = dpc + 3

\* the entry e of a caller's sequence is what decode_instruction_at gives
\* for the buffer and the entry's pc, whatever was decoded in between
DecodesAlone(e) ==
    LET r == decode_instruction_at(data, e.pc)
    IN  /\ e.name = r.name
        /\ e.next_pc = r.next_pc
        /\ e.operands = r.operands
        /\ e.store_var = r.store_var

\* a sequence that starts at start_pc and goes on at its own next_pc
OwnCursor(seq) ==
    \A k \in 1..Len(seq) :
        /\ DecodesAlone(seq[k])
        /\ seq[k].pc = (IF k = 1 THEN start_pc ELSE seq[k - 1].next_pc)

IndependentSequences ==
    /\ OwnCursor(steps)
    /\ OwnCursor(second_seq)
    \* both start at start_pc: as far as both have got they are the same
    /\ \A k \in 1..Min(Len(steps), Len(second_seq)) :
          /\ steps[k].pc = second_seq[k].pc
          /\ steps[k].name = second_seq[k].name
          /\ steps[k].next_pc = second_seq[k].next_pc
          /\ steps[k].operands = second_seq[k].operands
          /\ steps[k].store_var = second_seq[k].store_var
    \* the header is still what parsing the bytes gives
    /\ ~ZMachineHeader(data).raised
    /\ high_memory = ZMachineHeader(data).high_memory
    /\ start_pc = ZMachineHeader(data).start_pc
    /\ static_memory = ZMachineHeader(data).static_memory

NoSizeFinding(r) ==
    /\ r.violations = <<>>
    /\ \A k \in 1..Len(r.properties) :
          /\ r.properties[k].size \in 1..8
          /\ ~r.properties[k].zero_warning

\* C25: the size the analyzer computes is in 1..8 for every leading byte
\* 1..255, so analyze_object_properties and analyze_properties return no
\* violation on any input and the size-0 warning is never printed.
C25_NoViolationEver ==
    /\ \A b \in 1..255 :
          PropSize(b) \in 1..8 /\ ~SizeViolation(PropSize(b))
    /\ violations = <<>>
    /\ \A n \in 1..Len(objects) : NoSizeFinding(objects[n].analysis)
    /\ walk # None => NoSizeFinding(walk)

\* analyze_properties has finished on an object whose first property has
\* the leading byte 0xFF (size 8, the largest) and returned no violation
C25_Witness ==
    /\ astate = "done"
    /\ Len(objects) = 1
    /\ Len(objects[1].analysis.properties) >= 1
    /\ objects[1].analysis.properties[1].size_byte = 255
    /\ objects[1].analysis.properties[1].size = 8
    /\ violations = <<>>

\* C26: the steps are numbered 0, 1, 2, ...; step 0 is at the start pc and
\* every later step at the next_pc of the step before it; the addresses rise
\* strictly and lie inside the buffer; EOF is never a step.
C26_StepChain ==
    \A k \in 1..Len(steps) :
        /\ steps[k].index = k - 1
        /\ k = 1 => steps[k].pc = start_pc
        /\ k > 1 =>
              /\ steps[k].pc = steps[k - 1].next_pc
              /\ steps[k].pc > steps[k - 1].pc
        /\ steps[k].pc < Len(data)
        /\ steps[k].name # "EOF"

\* three one-byte instructions from the start pc on, the third on the last
\* byte of the buffer
C26_Witness ==
    /\ tstate = "done"
    /\ Len(steps) = 3
    /\ steps[1].index = 0 /\ steps[1].pc = start_pc
    /\ steps[2].index = 1 /\ steps[2].pc = start_pc + 1
    /\ steps[3].index = 2 /\ steps[3].pc = start_pc + 2
    /\ steps[3].pc = Len(data) - 1

\* both walkers have walked the table at prop_table_addr
BothWalked == walk # None /\ table_result # None

\* the property list analyze_object_properties walked: fewer than 50
\* entries in fewer than 200 bytes, every leading byte with top bit 0
BasicList ==
    /\ ~walk.out_of_bounds
    /\ Len(walk.properties) < PropertyLimit
    /\ walk.end - walk.prop_start < ReadSize
    /\ \A k \in 1..Len(walk.properties) :
          walk.properties[k].size_byte < 128

\* the two walkers visited the same (number, size, address) in the same
\* order and stopped at the same byte
SameWalk ==
    /\ Len(table_result.properties) = Len(walk.properties)
    /\ \A k \in 1..Len(walk.properties) :
          /\ table_result.properties[k].number = walk.properties[k].number
          /\ table_result.properties[k].size = walk.properties[k].size
          /\ table_result.properties[k].offset = walk.properties[k].address
    /\ prop_table_addr + table_result.end = walk.end

\* C27 as stated: on a property list of fewer than 50 entries in fewer than
\* 200 bytes whose leading bytes all have top bit 0, the two walkers visit
\* the same (property number, size, address) and stop at the same byte.
C27_WalkersAgree == (BothWalked /\ BasicList) => SameWalk

\* C27 amended: they do when, besides, no leading byte has property number
\* 0 (a nonzero multiple of 32) and the list, the name before it included,
\* ends within the 200 bytes analyze_property_table reads.
C27_WalkersAgreeOnLegalTable ==
    (/\ BothWalked
     /\ BasicList
     /\ walk.end < prop_table_addr + ReadSize
     /\ \A k \in 1..Len(walk.properties) :
           walk.properties[k].number # 0) => SameWalk

\* a one-byte property and a three-byte property, seen alike by both
C27_Witness ==
    /\ BothWalked
    /\ BasicList
    /\ Len(walk.properties) = 2
    /\ walk.properties[1].size = 1
    /\ walk.properties[1].number # 0
    /\ walk.properties[2].size = 3
    /\ walk.properties[2].number # 0
    /\ Len(table_result.properties) = 2
    /\ table_result.properties[2].size = 3
    /\ table_result.properties[2].offset = walk.properties[2].address
    /\ prop_table_addr + table_result.end = walk.end

====
